---------------------------- MODULE Spec2Model ----------------------------
(***************************************************************************)
(* The intcode virtual machine of src/intcode/src/lib.rs (struct Vm) and   *)
(* the host calls made on it: step, run, run_until_output, read_at,        *)
(* write_at, is_running, get_outputs, add_inputs.                          *)
(*                                                                         *)
(* A Vm value is a record  [memory, pc, rb, state, inputs, outputs].       *)
(* memory is a sequence; the cell at intcode address a is memory[a + 1].   *)
(* Every method is a pure operator from a Vm to a record holding the Vm    *)
(* after the call and the value returned; an action applies one method to  *)
(* the variable vm.                                                        *)
(***************************************************************************)
EXTENDS Integers, Sequences, FiniteSets, TLC

VARIABLES
    vm,        \* the Vm
    pre,       \* the Vm as it was when the last host call was made
    host,      \* where the host is: "idle", or inside "run" / "run_until_output"
    op,        \* the last host call: [name, xs, addr, val]
    ret,       \* what the last host call returned
    log,       \* one entry [pc, op] per step() made during that call: the pc it
               \* logged as "stepping" and the instruction it completed
    blocked,   \* where the Vm suspended: [at, word], at = -1 when it is not suspended
    supplied,  \* every value ever passed to add_inputs, in order
    stored,    \* every value an Input instruction stored, in order
    produced,  \* every value an Output instruction pushed, in order
    drained,   \* every value handed to the host from the output queue, in order
    pokes,     \* number of write_at calls made
    twin,      \* a second Vm of the same program, given all of its input before
               \* its run: [program, vm, todo, ret] (NoTwin where the host has none)
    amps       \* the amplifiers of day7's run_amps_loop and the position of its
               \* loops (NoAmps where the host has none)

vars == <<vm, pre, host, op, ret, log, blocked, supplied, stored, produced, drained, pokes, twin, amps>>

---------------------------------------------------------------------------
(* Bounds of the model. *)

MaxMem == 8          \* memory never grows beyond this many cells
MaxVal == 40000      \* |cell|, |rb| stay within this
MaxSupplied == 3     \* values passed to add_inputs over a whole run
MaxProduced == 3     \* values pushed by Output instructions over a whole run
MaxRunSteps == 8     \* step() calls followed inside one run() / run_until_output()
MaxPokes == 1        \* write_at calls over a whole run
MaxSlice == 2        \* longest slice passed to one add_inputs call
MaxBase == 4         \* |rb| stays within this in the single-instruction programs

---------------------------------------------------------------------------
(* i64 arithmetic as Rust does it: / truncates toward zero and % takes the *)
(* sign of the dividend.  (No value of the model leaves the i64 range, see *)
(* MaxVal, so + and * are the mathematical ones.)                          *)

RustDiv(a, b) == IF a >= 0 THEN a \div b ELSE -((-a) \div b)

(* The remainder as it would be if it took the sign of the divisor. *)
EuclidRem(a, b) == a % b

RustRem(a, b) == IF a >= 0 THEN a % b ELSE -((-a) % b)

Pow10(n) == IF n = 0 THEN 1
            ELSE IF n = 1 THEN 10
            ELSE IF n = 2 THEN 100
            ELSE IF n = 3 THEN 1000
            ELSE IF n = 4 THEN 10000
            ELSE 100000

Zeros(n) == [k \in 1..n |-> 0]

---------------------------------------------------------------------------
(* Results.  Every returned value is a record of the same shape:           *)
(*   tag    "Ok" | "Some" | "None" | "True" | "False" | "Outputs"          *)
(*          | "InvalidOpcode" | "InvalidAddress" | "Stopped"               *)
(*          | "NoMoreInput", or "Pending" while the call has not returned  *)
(*   state  the VmState step() returned ("-" otherwise)                    *)
(*   val    the value returned, or the opcode field of InvalidOpcode       *)
(*   addr   the addr field of InvalidOpcode / InvalidAddress               *)
(*   outs   the values get_outputs() yielded                               *)
(***************************************************************************)

Result(tag, state, val, addr, outs) ==
    [tag |-> tag, state |-> state, val |-> val, addr |-> addr, outs |-> outs]

NoError == Result("Ok", "-", 0, 0, <<>>)

InvalidOpcode(opcode, addr) == Result("InvalidOpcode", "-", opcode, addr, <<>>)

InvalidAddress(addr) == Result("InvalidAddress", "-", 0, addr, <<>>)

Stopped == Result("Stopped", "-", 0, 0, <<>>)

NoMoreInput == Result("NoMoreInput", "-", 0, 0, <<>>)

OkState(s) == Result("Ok", s, 0, 0, <<>>)

OkUnit == Result("Ok", "-", 0, 0, <<>>)

OkVal(v) == Result("Ok", "-", v, 0, <<>>)

SomeVal(v) == Result("Some", "-", v, 0, <<>>)

NoneVal == Result("None", "-", 0, 0, <<>>)

IsErr(r) == r.tag \in {"InvalidOpcode", "InvalidAddress", "Stopped", "NoMoreInput"}

---------------------------------------------------------------------------
(* Vm::new *)

new(memory) ==
    [memory |-> memory, pc |-> 0, rb |-> 0, state |-> "Running",
     inputs |-> <<>>, outputs |-> <<>>]

(* access as it would be resizing the memory one cell too far. *)
access_too_far(v, addr) ==
    IF addr < 0
    THEN [vm |-> v, err |-> InvalidAddress(addr), idx |-> 0]
    ELSE [vm |-> IF Len(v.memory) <= addr
                 THEN [v EXCEPT !.memory = v.memory \o Zeros(addr + 2 - Len(v.memory))]
                 ELSE v,
          err |-> NoError,
          idx |-> addr]

(* access as it would be refusing address 0 too. *)
access_from_one(v, addr) ==
    IF addr < 1
    THEN [vm |-> v, err |-> InvalidAddress(addr), idx |-> 0]
    ELSE [vm |-> IF Len(v.memory) <= addr
                 THEN [v EXCEPT !.memory = v.memory \o Zeros(addr + 1 - Len(v.memory))]
                 ELSE v,
          err |-> NoError,
          idx |-> addr]

(* Vm::access: the cell at addr, the memory first resized with zeros to    *)
(* hold it.  Returns the Vm after the resize and the index of the cell     *)
(* (the &mut i64 of the source); a negative addr is InvalidAddress.        *)
access(v, addr) ==
    IF addr < 0
    THEN [vm |-> v, err |-> InvalidAddress(addr), idx |-> 0]
    ELSE [vm |-> IF Len(v.memory) <= addr
                 THEN [v EXCEPT !.memory = v.memory \o Zeros(addr + 1 - Len(v.memory))]
                 ELSE v,
          err |-> NoError,
          idx |-> addr]

Failed(a) == a.err.tag # "Ok"

(* The value of the cell an access returned (the *r of the source). *)
Deref(a) == a.vm.memory[a.idx + 1]

(* The Vm after writing val through the reference an access returned. *)
Assign(a, val) == [a.vm EXCEPT !.memory[a.idx + 1] = val]

(* decode_mode as it would be with digits 0 and 1 taken for each other. *)
decode_mode_swapped(opcode, param) ==
    LET d == RustRem(RustDiv(opcode, Pow10(param + 2)), 10)
    IN  IF d = 0 THEN "Immediate"
        ELSE IF d = 1 THEN "Position"
        ELSE IF d = 2 THEN "Relative"
        ELSE "None"

(* Vm::decode_mode *)
decode_mode(opcode, param) ==
    LET d == RustRem(RustDiv(opcode, Pow10(param + 2)), 10)
    IN  IF d = 0 THEN "Position"
        ELSE IF d = 1 THEN "Immediate"
        ELSE IF d = 2 THEN "Relative"
        ELSE "None"

(* Number of parameter modes each opcode decodes. *)
Arity(o) == IF o \in {1, 2, 7, 8} THEN 3
            ELSE IF o \in {5, 6} THEN 2
            ELSE IF o \in {3, 4, 9} THEN 1
            ELSE 0

OpName(o) == CASE o = 1 -> "Add" [] o = 2 -> "Mul" [] o = 3 -> "Input"
               [] o = 4 -> "Output" [] o = 5 -> "JumpIfTrue"
               [] o = 6 -> "JumpIfFalse" [] o = 7 -> "LessThan"
               [] o = 8 -> "Equals" [] o = 9 -> "RelativeBaseOffset"
               [] o = 99 -> "End" [] OTHER -> "None"

(* read_opcode as it would be if every arm decoded three mode digits. *)
read_opcode_strict(v) ==
    LET a == access(v, v.pc) IN
    IF Failed(a) THEN [vm |-> a.vm, err |-> a.err, op |-> "None", modes |-> <<>>]
    ELSE
      LET i  == Deref(a)
          v1 == [a.vm EXCEPT !.pc = a.vm.pc + 1]
          o  == RustRem(i, 100)
          modes == [k \in 1..Arity(o) |-> decode_mode(i, k - 1)]
      IN  IF OpName(o) = "None"
          THEN [vm |-> v1, err |-> InvalidOpcode(o, v1.pc - 1), op |-> "None", modes |-> <<>>]
          ELSE IF \E k \in 1..3 : decode_mode(i, k - 1) = "None"
          THEN [vm |-> v1, err |-> InvalidOpcode(i, v1.pc - 1), op |-> "None", modes |-> <<>>]
          ELSE [vm |-> v1, err |-> NoError, op |-> OpName(o), modes |-> modes]

(* Vm::read_opcode: fetch the word at pc, advance pc, decode.  The modes   *)
(* are decoded in parameter order and the first bad one fails.             *)
read_opcode(v) ==
    LET a == access(v, v.pc) IN
    IF Failed(a) THEN [vm |-> a.vm, err |-> a.err, op |-> "None", modes |-> <<>>]
    ELSE
      LET i  == Deref(a)
          v1 == [a.vm EXCEPT !.pc = a.vm.pc + 1]
          o  == RustRem(i, 100)
          modes == [k \in 1..Arity(o) |-> decode_mode(i, k - 1)]
      IN  IF OpName(o) = "None"
          THEN [vm |-> v1, err |-> InvalidOpcode(o, v1.pc - 1), op |-> "None", modes |-> <<>>]
          ELSE IF \E k \in 1..Arity(o) : modes[k] = "None"
          THEN [vm |-> v1, err |-> InvalidOpcode(i, v1.pc - 1), op |-> "None", modes |-> <<>>]
          ELSE [vm |-> v1, err |-> NoError, op |-> OpName(o), modes |-> modes]

(* fetch_param as it would be leaving the pc on the parameter word. *)
fetch_param_stay(v, mode) ==
    LET pc == v.pc
    IN  IF mode = "Immediate" THEN access(v, pc)
        ELSE LET p == access(v, pc) IN
             IF Failed(p) THEN p
             ELSE IF mode = "Position" THEN access(p.vm, Deref(p))
             ELSE access(p.vm, Deref(p) + p.vm.rb)

(* fetch_param as it would be with Relative mode forgetting the base. *)
fetch_param_no_base(v, mode) ==
    LET pc == v.pc
        v1 == [v EXCEPT !.pc = v.pc + 1]
    IN  IF mode = "Immediate" THEN access(v1, pc)
        ELSE LET p == access(v1, pc) IN
             IF Failed(p) THEN p
             ELSE access(p.vm, Deref(p))

(* fetch_param as it would be resolving every parameter to its own cell. *)
fetch_param_literal(v, mode) == access([v EXCEPT !.pc = v.pc + 1], v.pc)

(* Vm::fetch_param: advance pc past the parameter word and resolve it to a *)
(* cell according to its mode.                                             *)
fetch_param(v, mode) ==
    LET pc == v.pc
        v1 == [v EXCEPT !.pc = v.pc + 1]
    IN  IF mode = "Immediate" THEN access(v1, pc)
        ELSE LET p == access(v1, pc) IN
             IF Failed(p) THEN p
             ELSE IF mode = "Position" THEN access(p.vm, Deref(p))
             ELSE access(p.vm, Deref(p) + p.vm.rb)


---------------------------------------------------------------------------
(* Vm::step.  A step result is [vm, ret, ev]: the Vm after the call, the   *)
(* value returned, and ev = [op, idx], the instruction that completed      *)
(* ("None" when none did) and the index of the cell it wrote (-1 if none). *)

Event(name, idx) == [op |-> name, idx |-> idx]

NoEvent == Event("None", -1)

Done(v, name, idx) == [vm |-> v, ret |-> OkState(v.state), ev |-> Event(name, idx)]

(* Fail as it would be if an error stopped the Vm. *)
FailStops(a) == [vm |-> [a.vm EXCEPT !.state = "Stopped"], ret |-> a.err, ev |-> NoEvent]

Fail(a) == [vm |-> a.vm, ret |-> a.err, ev |-> NoEvent]

(* ArithValue as it would be with LessThan comparing by <=. *)
ArithValueLe(name, x, y) ==
    CASE name = "Add" -> x + y
      [] name = "Mul" -> x * y
      [] name = "LessThan" -> IF x <= y THEN 1 ELSE 0
      [] name = "Equals" -> IF x = y THEN 1 ELSE 0

(* What the three-operand instructions compute from their two operands. *)
ArithValue(name, x, y) ==
    CASE name = "Add" -> x + y
      [] name = "Mul" -> x * y
      [] name = "LessThan" -> IF x < y THEN 1 ELSE 0
      [] name = "Equals" -> IF x = y THEN 1 ELSE 0

(* The three-operand arms (Add, Mul, LessThan, Equals): both operands are  *)
(* read, then the destination is resolved and written.                     *)
Arith(v, name, modes) ==
    LET a1 == fetch_param(v, modes[1]) IN
    IF Failed(a1) THEN Fail(a1) ELSE
    LET arg1 == Deref(a1)
        a2   == fetch_param(a1.vm, modes[2])
    IN
    IF Failed(a2) THEN Fail(a2) ELSE
    LET arg2 == Deref(a2)
        a3   == fetch_param(a2.vm, modes[3])
    IN
    IF Failed(a3) THEN Fail(a3)
    ELSE Done(Assign(a3, ArithValue(name, arg1, arg2)), name, a3.idx)

(* InputArm as it would be with the rewind of the pc forgotten. *)
InputArmNoRewind(v, modes) ==
    IF v.inputs # <<>>
    THEN LET i  == Head(v.inputs)
             v1 == [v EXCEPT !.inputs = Tail(v.inputs)]
             a1 == fetch_param(v1, modes[1])
         IN  IF Failed(a1) THEN Fail(a1)
             ELSE Done(Assign(a1, i), "Input", a1.idx)
    ELSE Done([v EXCEPT !.state = "WaitingForInput"], "None", -1)

(* InputArm as it would be reading the front input without removing it. *)
InputArmNoPop(v, modes) ==
    IF v.inputs # <<>>
    THEN LET i  == Head(v.inputs)
             a1 == fetch_param(v, modes[1])
         IN  IF Failed(a1) THEN Fail(a1)
             ELSE Done(Assign(a1, i), "Input", a1.idx)
    ELSE Done([v EXCEPT !.pc = v.pc - 1, !.state = "WaitingForInput"], "None", -1)

(* Opcode::Input: the front input is popped first, then the destination is *)
(* resolved; with no input the pc is put back on the opcode word.          *)
InputArm(v, modes) ==
    IF v.inputs # <<>>
    THEN LET i  == Head(v.inputs)
             v1 == [v EXCEPT !.inputs = Tail(v.inputs)]
             a1 == fetch_param(v1, modes[1])
         IN  IF Failed(a1) THEN Fail(a1)
             ELSE Done(Assign(a1, i), "Input", a1.idx)
    ELSE Done([v EXCEPT !.pc = v.pc - 1, !.state = "WaitingForInput"], "None", -1)

(* OutputArm as it would be pushing at the front of the queue. *)
OutputArmFront(v, modes) ==
    LET a1 == fetch_param(v, modes[1]) IN
    IF Failed(a1) THEN Fail(a1)
    ELSE Done([a1.vm EXCEPT !.outputs = <<Deref(a1)>> \o a1.vm.outputs], "Output", -1)

(* Opcode::Output *)
OutputArm(v, modes) ==
    LET a1 == fetch_param(v, modes[1]) IN
    IF Failed(a1) THEN Fail(a1)
    ELSE Done([a1.vm EXCEPT !.outputs = Append(a1.vm.outputs, Deref(a1))], "Output", -1)

(* JumpArm as it would be with the two conditions taken for each other. *)
JumpArmInverted(v, name, modes, onTrue) ==
    LET a1 == fetch_param(v, modes[1]) IN
    IF Failed(a1) THEN Fail(a1) ELSE
    LET arg1 == Deref(a1)
        a2   == fetch_param(a1.vm, modes[2])
    IN
    IF Failed(a2) THEN Fail(a2)
    ELSE IF (arg1 = 0) = onTrue
         THEN Done([a2.vm EXCEPT !.pc = Deref(a2)], name, -1)
         ELSE Done(a2.vm, name, -1)

(* Opcode::JumpIfTrue (taken = TRUE when arg1 # 0 jumps) and JumpIfFalse. *)
JumpArm(v, name, modes, onTrue) ==
    LET a1 == fetch_param(v, modes[1]) IN
    IF Failed(a1) THEN Fail(a1) ELSE
    LET arg1 == Deref(a1)
        a2   == fetch_param(a1.vm, modes[2])
    IN
    IF Failed(a2) THEN Fail(a2)
    ELSE IF (arg1 # 0) = onTrue
         THEN Done([a2.vm EXCEPT !.pc = Deref(a2)], name, -1)
         ELSE Done(a2.vm, name, -1)

(* RelativeBaseArm as it would be setting the base to its operand. *)
RelativeBaseArmSet(v, modes) ==
    LET a1 == fetch_param(v, modes[1]) IN
    IF Failed(a1) THEN Fail(a1)
    ELSE Done([a1.vm EXCEPT !.rb = Deref(a1)], "RelativeBaseOffset", -1)

(* Opcode::RelativeBaseOffset *)
RelativeBaseArm(v, modes) ==
    LET a1 == fetch_param(v, modes[1]) IN
    IF Failed(a1) THEN Fail(a1)
    ELSE Done([a1.vm EXCEPT !.rb = a1.vm.rb + Deref(a1)], "RelativeBaseOffset", -1)

(* EndArm as it would be discarding the queued outputs. *)
EndArmClears(v) == Done([v EXCEPT !.state = "Stopped", !.outputs = <<>>], "End", -1)

(* Opcode::End *)
EndArm(v) == Done([v EXCEPT !.state = "Stopped"], "End", -1)

(* The match on the decoded opcode, lib.rs:89-148. *)
Execute(v, o, modes) ==
    CASE o = "Add" -> Arith(v, o, modes)
      [] o = "Mul" -> Arith(v, o, modes)
      [] o = "Input" -> InputArm(v, modes)
      [] o = "Output" -> OutputArm(v, modes)
      [] o = "JumpIfTrue" -> JumpArm(v, o, modes, TRUE)
      [] o = "JumpIfFalse" -> JumpArm(v, o, modes, FALSE)
      [] o = "LessThan" -> Arith(v, o, modes)
      [] o = "Equals" -> Arith(v, o, modes)
      [] o = "RelativeBaseOffset" -> RelativeBaseArm(v, modes)
      [] o = "End" -> EndArm(v)

(* Refuses as it would be with the Stopped arm of the match missing. *)
RefusesNever(v) == FALSE

(* The match on self.state that opens step, lib.rs:75-86: a stopped Vm     *)
(* refuses, a suspended one with no input returns at once, a suspended one *)
(* with input becomes Running.                                             *)
Refuses(v) == v.state = "Stopped"

(* StillBlocked as it would be with the early return on an empty queue missing. *)
StillBlockedNever(v) == FALSE

StillBlocked(v) == v.state = "WaitingForInput" /\ v.inputs = <<>>

(* Resume as it would be leaving the state of a suspended Vm alone. *)
ResumeStays(v) == v

Resume(v) == IF v.state = "WaitingForInput" THEN [v EXCEPT !.state = "Running"] ELSE v

step(v) ==
    IF Refuses(v) THEN [vm |-> v, ret |-> Stopped, ev |-> NoEvent]
    ELSE IF StillBlocked(v) THEN [vm |-> v, ret |-> OkState("WaitingForInput"), ev |-> NoEvent]
    ELSE LET d == read_opcode(Resume(v)) IN
         IF Failed(d) THEN Fail(d)
         ELSE Execute(d.vm, d.op, d.modes)

---------------------------------------------------------------------------
(* Vm::run and Vm::run_until_output loop on step.  One turn of either loop *)
(* is given here as an operator; the host stays inside the call (see host) *)
(* until a turn returns.                                                   *)

Pending == Result("Pending", "-", 0, 0, <<>>)

(* run_match as it would be with the Stopped and WaitingForInput arms swapped. *)
run_match_swapped(r) ==
    IF IsErr(r) THEN r
    ELSE IF r.state = "Running" THEN Pending
    ELSE IF r.state = "Stopped" THEN NoMoreInput
    ELSE OkUnit

(* The match on step()'s value in run, lib.rs:153-157 (after the ?). *)
run_match(r) ==
    IF IsErr(r) THEN r
    ELSE IF r.state = "Running" THEN Pending
    ELSE IF r.state = "Stopped" THEN OkUnit
    ELSE NoMoreInput

(* One turn of run's loop: [vm, ret, ev], ret = Pending to loop again. *)
run_turn(v) ==
    LET s == step(v) IN [vm |-> s.vm, ret |-> run_match(s.ret), ev |-> s.ev]

(* The match on step()'s value in run_until_output, lib.rs:165-169. *)
run_until_output_match(r) ==
    IF IsErr(r) THEN r
    ELSE IF r.state = "Running" THEN Pending
    ELSE IF r.state = "Stopped" THEN NoneVal
    ELSE NoMoreInput

(* One turn of run_until_output's loop: a queued output is popped and      *)
(* returned before any step is made.                                       *)
HasOutput(v) == v.outputs # <<>>

(* run_until_output_turn as it would be popping the newest output. *)
run_until_output_turn_newest(v) ==
    IF HasOutput(v)
    THEN [vm |-> [v EXCEPT !.outputs = SubSeq(v.outputs, 1, Len(v.outputs) - 1)],
          ret |-> SomeVal(v.outputs[Len(v.outputs)]), ev |-> NoEvent]
    ELSE LET s == step(v) IN
         [vm |-> s.vm, ret |-> run_until_output_match(s.ret), ev |-> s.ev]

(* run_until_output_turn as it would be if a stopped Vm with nothing      *)
(* queued answered with no output once more.                               *)
run_until_output_turn_polite(v) ==
    IF HasOutput(v)
    THEN [vm |-> [v EXCEPT !.outputs = Tail(v.outputs)],
          ret |-> SomeVal(Head(v.outputs)), ev |-> NoEvent]
    ELSE IF v.state = "Stopped" THEN [vm |-> v, ret |-> NoneVal, ev |-> NoEvent]
    ELSE LET s == step(v) IN
         [vm |-> s.vm, ret |-> run_until_output_match(s.ret), ev |-> s.ev]

run_until_output_turn(v) ==
    IF HasOutput(v)
    THEN [vm |-> [v EXCEPT !.outputs = Tail(v.outputs)],
          ret |-> SomeVal(Head(v.outputs)), ev |-> NoEvent]
    ELSE LET s == step(v) IN
         [vm |-> s.vm, ret |-> run_until_output_match(s.ret), ev |-> s.ev]

(* Vm::read_at *)
read_at(v, addr) ==
    LET a == access(v, addr) IN
    IF Failed(a) THEN [vm |-> a.vm, ret |-> a.err]
    ELSE [vm |-> a.vm, ret |-> OkVal(Deref(a))]

(* Vm::write_at *)
write_at(v, addr, val) ==
    LET a == access(v, addr) IN
    IF Failed(a) THEN [vm |-> a.vm, ret |-> a.err]
    ELSE [vm |-> Assign(a, val), ret |-> OkUnit]

(* is_running as it would be if a blocked Vm did not count as running. *)
is_running_strict(v) == v.state = "Running"

(* Vm::is_running *)
is_running(v) == v.state # "Stopped"

(* Vm::get_outputs: the Drain iterator yields the queued values front to   *)
(* back and leaves the queue empty when it is dropped.                     *)
get_outputs(v) ==
    [vm |-> [v EXCEPT !.outputs = <<>>],
     ret |-> Result("Outputs", "-", 0, 0, v.outputs)]

(* add_inputs as it would be putting the values in front of the queue. *)
add_inputs_front(v, xs) == [v EXCEPT !.inputs = xs \o v.inputs]

(* Vm::add_inputs *)
RECURSIVE add_inputs(_, _)
add_inputs(v, xs) ==
    IF xs = <<>> THEN v
    ELSE add_inputs([v EXCEPT !.inputs = Append(v.inputs, Head(xs))], Tail(xs))

---------------------------------------------------------------------------
(* The twin of a host that has none. *)
NoTwin == [program |-> <<>>, vm |-> new(<<>>), todo |-> <<>>, ret |-> NoError]

(* The five amplifiers of run_amps_loop. *)
Amps == 0..4

(* The amplifiers of a host that has none. *)
NoAmps == [at |-> "none", i |-> 0, running |-> FALSE, ret |-> NoError,
           vms |-> [k \in Amps |-> new(<<>>)],
           made |-> [k \in Amps |-> <<>>], sent |-> [k \in Amps |-> <<>>],
           ran |-> FALSE, quiet |-> FALSE, refused |-> FALSE]

(* The host.  A Vm is constructed from one of Programs; the host then      *)
(* makes any sequence of calls on it, one at a time.                       *)

Programs ==
    { <<99>>,                          \* halts at once
      <<3, 0, 99>>,                    \* one input, then halt
      <<3, 0, 4, 0, 99>>,              \* input, output it, halt
      <<3, 5, 3, 6, 99>>,              \* two inputs, halt
      <<3, 7, 4, 7, 1105, 1, 0>>,      \* echo every input, forever
      <<104, 7, 104, 8, 99>>,          \* two outputs, halt
      <<104, 7, 3, 5, 4, 5, 99>>,      \* output, input, output, halt
      <<109, 7, 203, 0, 204, 0, 99>>,  \* relative-mode input and output
      <<103, 0, 99>>,                  \* input with an immediate destination
      <<3003, 5, 99>>,                 \* input with digits above its mode
      <<3, -1, 3, 5, 99>>,             \* input to a negative address
      <<4, -1, 99>>,                   \* output from a negative address
      <<4, 6, 99>>,                    \* output from beyond the memory
      <<303, 0, 99>>,                  \* input with mode digit 3
      <<-97, 0, 99>>,                  \* a negative word
      <<50, 99>>,                      \* an unknown opcode
      <<1, 0, 0, 0, 99>>,              \* add, halt
      <<1101, 100, -1, 4, 0>>,         \* add immediates into the next opcode
      <<1105, 1, 0>>,                  \* jumps to itself forever
      <<1105, 1, -1>>,                 \* jumps to a negative address
      <<1106, 0, 5>>,                  \* jumps beyond the memory
      <<109, -3, 204, 1, 99>>,         \* output from a negative relative address
      <<109, 2, 9, 1, 99>> }           \* the relative base moved twice

InputVals == {7, 8}

Slices == UNION { [1..n -> InputVals] : n \in 0..MaxSlice }

PokeAddrs == {-1, 0, 2, MaxMem - 1}

PokeVals == {99}

InBounds(v) ==
    /\ Len(v.memory) <= MaxMem
    /\ \A k \in 1..Len(v.memory) : v.memory[k] \in -MaxVal..MaxVal
    /\ v.rb \in -MaxVal..MaxVal

Call(name, xs, addr, val) == [name |-> name, xs |-> xs, addr |-> addr, val |-> val]

(* The word at address a (0 where the memory does not reach). *)
MemAt(v, a) == IF a >= 0 /\ a < Len(v.memory) THEN v.memory[a + 1] ELSE 0

NotBlocked == [at |-> -1, word |-> 0]

(* What one step adds to the histories. *)
StoredBy(t) == IF t.ev.op = "Input" THEN <<t.vm.memory[t.ev.idx + 1]>> ELSE <<>>

ProducedBy(t) == IF t.ev.op = "Output" THEN <<t.vm.outputs[Len(t.vm.outputs)]>> ELSE <<>>

(* The log entry of a step made on v. *)
Logged(v, t) == [pc |-> v.pc, op |-> t.ev.op]

(* Where the Vm is suspended after a step made on v: the address and the   *)
(* word of the instruction the suspending step decoded.                    *)
BlockedAfter(old, v, t) ==
    IF t.vm.state # "WaitingForInput" THEN NotBlocked
    ELSE IF StillBlocked(v) THEN old
    ELSE [at |-> v.pc, word |-> MemAt(v, v.pc)]

Init ==
    /\ vm \in { new(p) : p \in Programs }
    /\ pre = vm
    /\ host = "idle"
    /\ op = Call("new", <<>>, 0, 0)
    /\ ret = NoError
    /\ log = <<>>
    /\ blocked = NotBlocked
    /\ supplied = <<>>
    /\ stored = <<>>
    /\ produced = <<>>
    /\ drained = <<>>
    /\ pokes = 0
    /\ twin = NoTwin
    /\ amps = NoAmps

(* The effect on the Vm and the histories of a turn t = [vm, ret, ev] that *)
(* called step().                                                          *)
Stepped(t) ==
    /\ InBounds(t.vm)
    /\ Len(produced) + Len(ProducedBy(t)) <= MaxProduced
    /\ vm' = t.vm
    /\ ret' = t.ret
    /\ blocked' = BlockedAfter(blocked, vm, t)
    /\ stored' = stored \o StoredBy(t)
    /\ produced' = produced \o ProducedBy(t)
    /\ UNCHANGED <<supplied, pokes>>

(* The host calls step(). *)
Step ==
    /\ host = "idle"
    /\ pre' = vm
    /\ op' = Call("step", <<>>, 0, 0)
    /\ \E s \in {step(vm)} :
          /\ Stepped(s)
          /\ log' = <<Logged(vm, s)>>
    /\ UNCHANGED <<host, drained, twin, amps>>

(* The host calls run() or run_until_output() and enters its loop. *)
Enter(name) ==
    /\ host = "idle"
    /\ host' = name
    /\ pre' = vm
    /\ op' = Call(name, <<>>, 0, 0)
    /\ ret' = Pending
    /\ log' = <<>>
    /\ UNCHANGED <<vm, blocked, supplied, stored, produced, drained, pokes, twin, amps>>

Run == Enter("run")

RunUntilOutput == Enter("run_until_output")

(* One turn of run's loop. *)
RunTurn ==
    /\ host = "run"
    /\ Len(log) < MaxRunSteps
    /\ \E t \in {run_turn(vm)} :
          /\ Stepped(t)
          /\ log' = Append(log, Logged(vm, t))
          /\ host' = IF t.ret = Pending THEN "run" ELSE "idle"
    /\ UNCHANGED <<pre, op, drained, twin, amps>>

(* One turn of run_until_output's loop. *)
RunUntilOutputTurn ==
    /\ host = "run_until_output"
    /\ \E t \in {run_until_output_turn(vm)} :
          /\ IF HasOutput(vm)
             THEN /\ vm' = t.vm
                  /\ ret' = t.ret
                  /\ drained' = Append(drained, t.ret.val)
                  /\ UNCHANGED <<log, blocked, supplied, stored, produced, pokes>>
             ELSE /\ Len(log) < MaxRunSteps
                  /\ log' = Append(log, Logged(vm, t))
                  /\ Stepped(t)
                  /\ UNCHANGED drained
          /\ host' = IF t.ret = Pending THEN "run_until_output" ELSE "idle"
    /\ UNCHANGED <<pre, op, twin, amps>>

(* The effect of a call that makes no step() call. *)
Called(c, v, r) ==
    /\ host = "idle"
    /\ InBounds(v)
    /\ vm' = v
    /\ pre' = vm
    /\ op' = c
    /\ ret' = r
    /\ log' = <<>>
    /\ blocked' = IF v.state = "WaitingForInput" THEN blocked ELSE NotBlocked
    /\ UNCHANGED <<host, stored, produced>>

ReadAt ==
    \E a \in PokeAddrs :
        \E r \in {read_at(vm, a)} :
            /\ Called(Call("read_at", <<>>, a, 0), r.vm, r.ret)
            /\ UNCHANGED <<supplied, drained, pokes, twin, amps>>

WriteAt ==
    \E a \in PokeAddrs, val \in PokeVals :
        \E r \in {write_at(vm, a, val)} :
            /\ pokes < MaxPokes
            /\ Called(Call("write_at", <<>>, a, val), r.vm, r.ret)
            /\ pokes' = pokes + 1
            /\ UNCHANGED <<supplied, drained, twin, amps>>

IsRunning ==
    /\ Called(Call("is_running", <<>>, 0, 0), vm,
              Result(IF is_running(vm) THEN "True" ELSE "False", "-", 0, 0, <<>>))
    /\ UNCHANGED <<supplied, drained, pokes, twin, amps>>

GetOutputs ==
    \E r \in {get_outputs(vm)} :
        /\ Called(Call("get_outputs", <<>>, 0, 0), r.vm, r.ret)
        /\ drained' = drained \o r.ret.outs
        /\ UNCHANGED <<supplied, pokes, twin, amps>>

AddInputs ==
    \E xs \in Slices :
        /\ Len(supplied) + Len(xs) <= MaxSupplied
        /\ Called(Call("add_inputs", xs, 0, 0), add_inputs(vm, xs), OkUnit)
        /\ supplied' = supplied \o xs
        /\ UNCHANGED <<drained, pokes, twin, amps>>

Next ==
    \/ Step
    \/ Run
    \/ RunTurn
    \/ RunUntilOutput
    \/ RunUntilOutputTurn
    \/ ReadAt
    \/ WriteAt
    \/ IsRunning
    \/ GetOutputs
    \/ AddInputs

Spec == Init /\ [][Next]_vars

---------------------------------------------------------------------------
(* Single instructions.  A second host constructs the Vm from a program    *)
(* <<109, r, w, p1, p2, p3, 99>>: the relative base is set to r, then the  *)
(* word w is decoded and executed with the parameter words p1, p2, p3.     *)
(* This host only calls step(), and add_inputs() when the Vm has suspended *)
(* on an empty queue.                                                      *)

Opcodes == {1, 2, 3, 4, 5, 6, 7, 8, 9}

(* Every word of an opcode with each of its mode digits in {0, 1, 2}. *)
GoodWords ==
    {99} \cup
    UNION { { o + 100 * m[1] + 1000 * m[2] + 10000 * m[3] :
                m \in { mm \in [1..3 -> 0..2] : \A k \in 1..3 : k > Arity(o) => mm[k] = 0 } } :
            o \in Opcodes }

(* Words with the digit 3 in the place of one of the opcode's modes. *)
BadModeWords ==
    UNION { { o + 3 * Pow10(k + 2) : k \in 0..(Arity(o) - 1) } : o \in Opcodes }
    \cup {3101, 31102, 13008, 3205, 403}

(* Words whose digits above the opcode's modes are not modes. *)
SpareDigitWords == {3003, 30004, 30005, 30104, 199, 1099, 399, 30009}

(* Words whose last two digits are no opcode, and negative words. *)
UnknownWords == {0, 10, 50, 98, 150, 1234, 20000, -1, -3, -97, -99, -100, -1101}

InstrWords == GoodWords \cup BadModeWords \cup SpareDigitWords \cup UnknownWords

Bases == {-1, 0, 2}

InstrPrograms ==
    { <<109, r, w, p1, p2, p3, 99>> :
        r \in Bases, w \in InstrWords, p1 \in {-1, 1, 4}, p2 \in {0, 4, 7}, p3 \in {-2, 3, 5} }
    \cup { <<1, 0, 0, 0, 99>>, <<1101, 100, -1, 4, 0>> }

InitInstr ==
    /\ vm \in { new(p) : p \in InstrPrograms }
    /\ pre = vm
    /\ host = "idle"
    /\ op = Call("new", <<>>, 0, 0)
    /\ ret = NoError
    /\ log = <<>>
    /\ blocked = NotBlocked
    /\ supplied = <<>>
    /\ stored = <<>>
    /\ produced = <<>>
    /\ drained = <<>>
    /\ pokes = 0
    /\ twin = NoTwin
    /\ amps = NoAmps

(* The host calls step(). *)
InstrStep ==
    /\ Step
    /\ vm'.rb \in -MaxBase..MaxBase

(* The host gives input to a Vm that has suspended for want of it. *)
Feed ==
    /\ StillBlocked(vm)
    /\ AddInputs

NextInstr ==
    \/ InstrStep
    \/ Feed

SpecInstr == InitInstr /\ [][NextInstr]_vars

---------------------------------------------------------------------------
(* Two schedules of input.  A third host constructs two Vms from the same  *)
(* program.  The twin is given a whole sequence of inputs and then run     *)
(* (as run_amps does); the other is run first and given the next value of  *)
(* the same sequence each time its run has come back blocked (as           *)
(* run_amps_loop feeds an amplifier).                                      *)

Plans == UNION { [1..n -> InputVals] : n \in 0..MaxSupplied }

InitTiming ==
    /\ \E p \in Programs, xs \in Plans :
          /\ vm = new(p)
          /\ twin = [program |-> p, vm |-> add_inputs(new(p), xs), todo |-> xs, ret |-> Pending]
    /\ pre = vm
    /\ host = "idle"
    /\ op = Call("new", <<>>, 0, 0)
    /\ ret = NoError
    /\ log = <<>>
    /\ blocked = NotBlocked
    /\ supplied = <<>>
    /\ stored = <<>>
    /\ produced = <<>>
    /\ drained = <<>>
    /\ pokes = 0
    /\ amps = NoAmps

(* One turn of the loop of the twin's run(). *)
TwinTurn ==
    /\ twin.ret = Pending
    /\ \E t \in {run_turn(twin.vm)} :
          /\ InBounds(t.vm)
          /\ Len(t.vm.outputs) <= MaxProduced
          /\ twin' = [twin EXCEPT !.vm = t.vm, !.ret = t.ret]
    /\ UNCHANGED <<vm, pre, host, op, ret, log, blocked, supplied, stored, produced, drained, pokes, amps>>

(* The host calls run() on the Vm it has just constructed or just fed. *)
LazyRun ==
    /\ twin.ret # Pending
    /\ op.name \in {"new", "add_inputs"}
    /\ Run

(* The run has come back blocked: the host passes the next value. *)
FeedNext ==
    /\ op.name = "run"
    /\ StillBlocked(vm)
    /\ twin.todo # <<>>
    /\ Called(Call("add_inputs", <<Head(twin.todo)>>, 0, 0),
              add_inputs(vm, <<Head(twin.todo)>>), OkUnit)
    /\ supplied' = Append(supplied, Head(twin.todo))
    /\ twin' = [twin EXCEPT !.todo = Tail(twin.todo)]
    /\ UNCHANGED <<drained, pokes, amps>>

NextTiming ==
    \/ TwinTurn
    \/ LazyRun
    \/ RunTurn
    \/ FeedNext

SpecTiming == InitTiming /\ [][NextTiming]_vars

---------------------------------------------------------------------------
(* The quine.  A fourth host constructs the Vm from the program below and  *)
(* calls step() and run() on it for as long as is_running() holds; no      *)
(* bound of the model is applied to this Vm.                               *)

Quine == <<109, 1, 204, -1, 1001, 100, 1, 100, 1008, 100, 16, 101, 1006, 101, 0, 99>>

InitQuine ==
    /\ vm = new(Quine)
    /\ pre = vm
    /\ host = "idle"
    /\ op = Call("new", <<>>, 0, 0)
    /\ ret = NoError
    /\ log = <<>>
    /\ blocked = NotBlocked
    /\ supplied = <<>>
    /\ stored = <<>>
    /\ produced = <<>>
    /\ drained = <<>>
    /\ pokes = 0
    /\ twin = NoTwin
    /\ amps = NoAmps

(* The effect on the Vm and the histories of a turn t that called step(). *)
SteppedFreely(t) ==
    /\ vm' = t.vm
    /\ ret' = t.ret
    /\ blocked' = BlockedAfter(blocked, vm, t)
    /\ stored' = stored \o StoredBy(t)
    /\ produced' = produced \o ProducedBy(t)
    /\ UNCHANGED <<supplied, pokes>>

(* The host calls step(). *)
QuineStep ==
    /\ host = "idle"
    /\ is_running(vm)
    /\ pre' = vm
    /\ op' = Call("step", <<>>, 0, 0)
    /\ \E s \in {step(vm)} :
          /\ SteppedFreely(s)
          /\ log' = <<Logged(vm, s)>>
    /\ UNCHANGED <<host, drained, twin, amps>>

(* The host calls run(). *)
QuineRun ==
    /\ is_running(vm)
    /\ Run

(* One turn of run's loop. *)
QuineRunTurn ==
    /\ host = "run"
    /\ \E t \in {run_turn(vm)} :
          /\ SteppedFreely(t)
          /\ log' = Append(log, Logged(vm, t))
          /\ host' = IF t.ret = Pending THEN "run" ELSE "idle"
    /\ UNCHANGED <<pre, op, drained, twin, amps>>

NextQuine ==
    \/ QuineStep
    \/ QuineRun
    \/ QuineRunTurn

SpecQuine == InitQuine /\ [][NextQuine]_vars

---------------------------------------------------------------------------
(* day7's run_amps_loop: five Vms of one program, each given its phase,    *)
(* the first also the signal 0, visited in turn for as long as a round     *)
(* sees some step return Running.  amps holds the position of the loops    *)
(* (at, i, running), the Vms (vms), the value returned (ret) and, as       *)
(* history, every value each amplifier output (made), every value passed   *)
(* on to each (sent), whether a step of the present round returned Running *)
(* (ran), whether the round just completed saw none do so (quiet) and      *)
(* whether step() was ever called on a stopped amplifier (refused).        *)

(* The error of run_amps_loop when amplifier 4 has nothing queued. *)
NoOutput == Result("NoOutput", "-", 0, 0, <<>>)

(* The amplifier whose outputs amplifier i is given. *)
Before(i) == (i - 1 + 5) % 5

(* The programs given to run_amps_loop. *)
AmpPrograms ==
    { <<3, 11, 3, 12, 1, 11, 12, 12, 4, 12, 99, 0, 0>>,        \* phase + signal, once
      <<3, 18, 3, 19, 1, 18, 19, 19, 4, 19, 1001, 20, -1, 20,
        1005, 20, 2, 99, 0, 0, 2>>,                            \* phase + signal, twice round
      <<3, 0, 3, 0, 3, 0, 4, 0, 99>>,                          \* wants two signals first
      <<3, 9, 3, 10, 4, 10, 4, 9, 99, 0, 0>>,                  \* outputs signal, then phase
      <<3, 0, 3, 0, 4, 0, 3, 0, 99>>,                          \* wants a signal after its output
      <<3, 0, 50, 99>>,                                        \* fails after the phase
      <<3, 15, 1007, 15, 7, 14, 1005, 14, 13, 3, 15, 4, 15,
        99, 0, 0>>,                                            \* halts at once on a phase < 7
      <<99>> }

(* The phase settings part2 passes: the permutations of 5..9. *)
AmpParams == { f \in [Amps -> 5..9] : \A j, k \in Amps : f[j] = f[k] => j = k }

(* The amplifiers as constructed, main.rs:35-40. *)
AmpsNew(prog, params) ==
    LET made == [k \in Amps |-> add_inputs(new(prog), <<params[k]>>)]
    IN  [made EXCEPT ![0] = add_inputs(made[0], <<0>>)]

(* An amplifier the round passes over as if it skipped none. *)
AmpSkipsNever(v) == FALSE

(* An amplifier the round passes over, main.rs:45-47. *)
AmpSkips(v) == ~is_running(v)

InitAmps ==
    /\ \E p \in AmpPrograms, params \in AmpParams :
          /\ vm = new(p)
          /\ amps = [NoAmps EXCEPT !.at = "while", !.running = TRUE,
                                   !.vms = AmpsNew(p, params)]
    /\ pre = vm
    /\ host = "idle"
    /\ op = Call("new", <<>>, 0, 0)
    /\ ret = NoError
    /\ log = <<>>
    /\ blocked = NotBlocked
    /\ supplied = <<>>
    /\ stored = <<>>
    /\ produced = <<>>
    /\ drained = <<>>
    /\ pokes = 0
    /\ twin = NoTwin

(* The test of the while loop and the start of a round, main.rs:42-43. *)
AmpWhile ==
    /\ amps.at = "while"
    /\ amps' = IF amps.running
               THEN [amps EXCEPT !.running = FALSE, !.i = 0, !.at = "for", !.ran = FALSE]
               ELSE [amps EXCEPT !.at = "return"]
    /\ UNCHANGED <<vm, pre, host, op, ret, log, blocked, supplied, stored, produced, drained, pokes, twin>>

(* The head of the for loop: the round is over, or amplifier i is passed   *)
(* over, or it is given the outputs of the one before it, main.rs:44-49.   *)
AmpFor ==
    /\ amps.at = "for"
    /\ LET i == amps.i IN
       amps' = IF i = 5
               THEN [amps EXCEPT !.at = "while", !.quiet = ~amps.ran]
               ELSE IF AmpSkips(amps.vms[i])
               THEN [amps EXCEPT !.i = i + 1]
               ELSE LET g   == get_outputs(amps.vms[Before(i)])
                        ins == g.ret.outs
                    IN  [amps EXCEPT !.vms = [amps.vms EXCEPT ![Before(i)] = g.vm,
                                                              ![i] = add_inputs(amps.vms[i], ins)],
                                     !.sent[i] = amps.sent[i] \o ins,
                                     !.at = "loop"]
    /\ UNCHANGED <<vm, pre, host, op, ret, log, blocked, supplied, stored, produced, drained, pokes, twin>>

(* One turn of the inner loop: a step of amplifier i, main.rs:50-56. *)
AmpLoop ==
    /\ amps.at = "loop"
    /\ LET i == amps.i IN
       \E s \in {step(amps.vms[i])} :
          LET a == [amps EXCEPT !.vms[i] = s.vm,
                                !.made[i] = amps.made[i] \o ProducedBy(s),
                                !.refused = amps.refused \/ amps.vms[i].state = "Stopped"]
          IN  amps' = IF IsErr(s.ret)
                      THEN [a EXCEPT !.ret = s.ret, !.at = "done"]
                      ELSE IF s.ret.state = "Running"
                      THEN [a EXCEPT !.running = TRUE, !.ran = TRUE]
                      ELSE [a EXCEPT !.i = i + 1, !.at = "for"]
    /\ UNCHANGED <<vm, pre, host, op, ret, log, blocked, supplied, stored, produced, drained, pokes, twin>>

(* The value returned when the while loop has ended, main.rs:59-60. *)
AmpReturn ==
    /\ amps.at = "return"
    /\ LET g == get_outputs(amps.vms[4]) IN
       amps' = [amps EXCEPT !.vms[4] = g.vm,
                            !.ret = IF g.ret.outs = <<>> THEN NoOutput
                                    ELSE OkVal(Head(g.ret.outs)),
                            !.at = "done"]
    /\ UNCHANGED <<vm, pre, host, op, ret, log, blocked, supplied, stored, produced, drained, pokes, twin>>

NextAmps ==
    \/ AmpWhile
    \/ AmpFor
    \/ AmpLoop
    \/ AmpReturn

SpecAmps == InitAmps /\ [][NextAmps]_vars

(* The driver is a sequential program: it takes its next step as long as   *)
(* it has one, which is weak fairness of each of its four actions.  That   *)
(* of AmpLoop is written out, []<>~ENABLED <<AmpLoop>>_vars \/              *)
(* []<><<AmpLoop>>_vars, with the position that enables it in the place of *)
(* ENABLED: at "loop" a step() is always made and always changes amps.     *)
SpecAmpsFair ==
    /\ SpecAmps
    /\ WF_vars(AmpWhile)
    /\ WF_vars(AmpFor)
    /\ WF_vars(AmpReturn)
    /\ ([]<>(amps.at # "loop") \/ []<><<AmpLoop>>_vars)

---------------------------------------------------------------------------
(* Vocabulary of the properties below.                                     *)

Idle(name) == host = "idle" /\ op.name = name

(* The decimal digit of word w that holds the mode of parameter k (0-based). *)
ModeDigit(w, k) == (w \div Pow10(k + 2)) % 10

(* The word at address a of v is an Input instruction: opcode 3 and a mode *)
(* digit the decoder accepts.                                              *)
InputAt(v, a) ==
    /\ a >= 0 /\ a < Len(v.memory)
    /\ MemAt(v, a) >= 0
    /\ MemAt(v, a) % 100 = 3
    /\ ModeDigit(MemAt(v, a), 0) \in {0, 1, 2}

(* Address a holds the same value in u and v, for every address. *)
SameCells(u, v) ==
    \A a \in 0 .. (IF Len(u.memory) > Len(v.memory) THEN Len(u.memory) ELSE Len(v.memory)) :
        MemAt(u, a) = MemAt(v, a)

---------------------------------------------------------------------------
(* C1 as stated: a step on a Running Vm whose pc is on a word with         *)
(* word mod 100 = 3, the input queue empty, returns WaitingForInput, sets  *)
(* the state to WaitingForInput, leaves the pc on that word and leaves the *)
(* memory, the relative base and both queues as they were.                 *)
C1_AnyWordMod100Is3 ==
    ( /\ Idle("step")
      /\ pre.state = "Running"
      /\ pre.pc >= 0 /\ pre.pc < Len(pre.memory)
      /\ RustRem(MemAt(pre, pre.pc), 100) = 3
      /\ pre.inputs = <<>> )
    => /\ ret = OkState("WaitingForInput")
       /\ vm = [pre EXCEPT !.state = "WaitingForInput"]

(* C1, amended: the same for a word that is an Input instruction, that is  *)
(* opcode 3 with its mode digit in {0, 1, 2}: the step returns             *)
(* WaitingForInput, the state is WaitingForInput, the pc is back on the    *)
(* opcode word and nothing else of the Vm has changed.                     *)
C1_Suspension ==
    ( /\ Idle("step")
      /\ pre.state = "Running"
      /\ InputAt(pre, pre.pc)
      /\ pre.inputs = <<>> )
    => /\ ret = OkState("WaitingForInput")
       /\ vm.state = "WaitingForInput"
       /\ vm.pc = pre.pc
       /\ vm.memory = pre.memory
       /\ vm.rb = pre.rb
       /\ vm.inputs = pre.inputs
       /\ vm.outputs = pre.outputs

(* A Running Vm has just suspended on an Input that is not its first word. *)
C1_Witness ==
    /\ Idle("step")
    /\ pre.state = "Running"
    /\ InputAt(pre, pre.pc)
    /\ pre.pc > 0
    /\ pre.inputs = <<>>
    /\ ret = OkState("WaitingForInput")

---------------------------------------------------------------------------
(* The address an Input instruction at address p of v writes to, for a     *)
(* Position-mode (digit 0) or Relative-mode (digit 2) destination.         *)
DestOf(v, p) ==
    IF ModeDigit(MemAt(v, p), 0) = 0 THEN MemAt(v, p + 1)
    ELSE MemAt(v, p + 1) + v.rb

(* C2: a step on a Vm that is in WaitingForInput on an Input instruction   *)
(* at address p, with a Position- or Relative-mode destination d >= 0 and  *)
(* a non-empty input queue, returns Running, takes exactly the front value *)
(* off the input queue, leaves memory[d] equal to that value and leaves    *)
(* the pc at p + 2.                                                        *)
C2_Resumption ==
    ( /\ Idle("step")
      /\ pre.state = "WaitingForInput"
      /\ pre.inputs # <<>>
      /\ InputAt(pre, pre.pc)
      /\ ModeDigit(MemAt(pre, pre.pc), 0) \in {0, 2}
      /\ DestOf(pre, pre.pc) >= 0 )
    => /\ ret = OkState("Running")
       /\ vm.state = "Running"
       /\ vm.inputs = Tail(pre.inputs)
       /\ MemAt(vm, DestOf(pre, pre.pc)) = Head(pre.inputs)
       /\ Len(vm.memory) > DestOf(pre, pre.pc)
       /\ vm.pc = pre.pc + 2
       /\ log = <<[pc |-> pre.pc, op |-> "Input"]>>

(* A suspended Vm holding two inputs has just resumed. *)
C2_Witness ==
    /\ Idle("step")
    /\ pre.state = "WaitingForInput"
    /\ Len(pre.inputs) = 2
    /\ pre.inputs[1] # pre.inputs[2]
    /\ InputAt(pre, pre.pc)
    /\ pre.pc > 0
    /\ DestOf(pre, pre.pc) >= 0
    /\ ret = OkState("Running")

---------------------------------------------------------------------------
(* C3: once the state is Stopped, step() and run() fail with the Stopped   *)
(* error and leave the whole Vm as it was, and no call of any kind takes   *)
(* the state away from Stopped.                                            *)
C3_StoppedIsTerminal ==
    /\ (pre.state = "Stopped" /\ (Idle("step") \/ Idle("run")))
          => (ret = Stopped /\ vm = pre)
    /\ pre.state = "Stopped" => vm.state = "Stopped"

(* run() has just been refused on a Vm that had halted with inputs and     *)
(* outputs still queued.                                                   *)
C3_Witness ==
    /\ Idle("run")
    /\ pre.state = "Stopped"
    /\ pre.inputs # <<>>
    /\ pre.outputs # <<>>
    /\ ret = Stopped

---------------------------------------------------------------------------
(* blocked.word is an Input instruction. *)
InputWord(w) == w >= 0 /\ w % 100 = 3 /\ ModeDigit(w, 0) \in {0, 1, 2}

(* C4: run() returns Ok only with the Vm Stopped (its last step executed   *)
(* Halt); it returns NoMoreInput only with the Vm in WaitingForInput, the  *)
(* input queue empty and the pc on the Input instruction it suspended on;  *)
(* and run() called on a suspended Vm that has been given input starts at  *)
(* that Input instruction, is not refused, and when the Input stores its   *)
(* value the next instruction executed is the one right after it, with     *)
(* one input consumed per Input executed.                                  *)
C4_RunOutcomes ==
    /\ (Idle("run") /\ ret = OkUnit)
          => (vm.state = "Stopped" /\ log # <<>> /\ log[Len(log)].op = "End")
    /\ (Idle("run") /\ ret = NoMoreInput)
          => /\ vm.state = "WaitingForInput"
             /\ vm.inputs = <<>>
             /\ vm.pc = blocked.at
             /\ InputWord(blocked.word)
    /\ ( /\ op.name = "run"
         /\ log # <<>>
         /\ pre.state = "WaitingForInput"
         /\ pre.inputs # <<>>
         /\ InputAt(pre, pre.pc) )
          => /\ log[1].pc = pre.pc
             /\ ret # Stopped
             /\ log[1].op = "Input"
                   => /\ Len(vm.inputs) < Len(pre.inputs)
                      /\ Len(log) >= 2 => log[2].pc = pre.pc + 2

(* run() resumed a suspended Vm, went on past the Input and came back      *)
(* blocked on an Input again.                                              *)
C4_Witness ==
    /\ Idle("run")
    /\ pre.state = "WaitingForInput"
    /\ pre.inputs # <<>>
    /\ InputAt(pre, pre.pc)
    /\ Len(log) >= 4
    /\ log[2].pc = pre.pc + 2
    /\ ret = NoMoreInput

---------------------------------------------------------------------------
(* C5: on a Vm in WaitingForInput with an empty input queue, step()        *)
(* returns WaitingForInput and run() returns NoMoreInput after a single    *)
(* call of step, and either leaves the whole Vm as it was (so the same     *)
(* holds for the next call).                                               *)
C5_PollingIsNoOp ==
    (pre.state = "WaitingForInput" /\ pre.inputs = <<>>)
    => /\ Idle("step") => (ret = OkState("WaitingForInput") /\ vm = pre)
       /\ Idle("run") => (ret = NoMoreInput /\ vm = pre /\ Len(log) = 1)
       /\ (host = "run") => (vm = pre /\ log = <<>>)

(* run() has polled a blocked Vm a second time in a row. *)
C5_Witness ==
    /\ Idle("run")
    /\ pre.state = "WaitingForInput"
    /\ pre.inputs = <<>>
    /\ pre.pc > 0
    /\ ret = NoMoreInput
    /\ vm = pre

---------------------------------------------------------------------------
NoOutputBefore(n) == \A k \in 1..(n - 1) : log[k].op # "Output"

(* C6: run_until_output() returns Some(o) with o the oldest queued output: *)
(* taken off the queue without executing anything when the queue was       *)
(* non-empty on entry, and otherwise produced by the first Output          *)
(* instruction to complete, the pc left just past that instruction; it     *)
(* returns None exactly when a step of the call executed Halt before any   *)
(* Output; it fails with NoMoreInput when a step of the call left the Vm   *)
(* blocked on an empty input queue.                                        *)
C6_RunUntilOutput ==
    Idle("run_until_output") =>
    /\ pre.outputs # <<>>
          => /\ ret = SomeVal(Head(pre.outputs))
             /\ vm = [pre EXCEPT !.outputs = Tail(pre.outputs)]
             /\ log = <<>>
    /\ (ret.tag = "Some" /\ pre.outputs = <<>>)
          => /\ log # <<>>
             /\ log[Len(log)].op = "Output"
             /\ NoOutputBefore(Len(log))
             /\ vm.pc = log[Len(log)].pc + 2
             /\ vm.outputs = <<>>
             /\ ret.val = produced[Len(produced)]
    /\ ret = NoneVal
          <=> (log # <<>> /\ log[Len(log)].op = "End")
    /\ ret = NoneVal
          => (vm.state = "Stopped" /\ NoOutputBefore(Len(log) + 1) /\ pre.outputs = <<>>)
    /\ ret = NoMoreInput
          <=> (log # <<>> /\ vm.state = "WaitingForInput")
    /\ ret = NoMoreInput
          => (vm.inputs = <<>> /\ pre.outputs = <<>>)

(* run_until_output() stepped through an Input and then an Output and      *)
(* returned the value output.                                              *)
C6_Witness ==
    /\ Idle("run_until_output")
    /\ pre.outputs = <<>>
    /\ Len(log) >= 2
    /\ log[1].op = "Input"
    /\ ret.tag = "Some"

---------------------------------------------------------------------------
(* The value of parameter k (0-based) of the instruction at address p of   *)
(* v, read according to its mode digit.                                    *)
ReadOperand(v, p, k) ==
    LET m   == ModeDigit(MemAt(v, p), k)
        lit == MemAt(v, p + 1 + k)
    IN  IF m = 1 THEN lit
        ELSE IF m = 0 THEN MemAt(v, lit)
        ELSE MemAt(v, lit + v.rb)

(* C7: a step of a Running Vm that executes an Output instruction appends  *)
(* the value of its operand at the tail of the output queue, moves the pc  *)
(* past the instruction and changes no cell, nor the relative base, the    *)
(* state or the input queue; get_outputs() returns the whole queue in      *)
(* order and leaves it empty, changing nothing else; and at all times the  *)
(* values output so far are exactly the values handed to the host so far   *)
(* followed by the values still queued.                                    *)
C7_OutputFifo ==
    /\ (Idle("step") /\ pre.state = "Running" /\ log[1].op = "Output")
          => /\ vm.outputs = Append(pre.outputs, ReadOperand(pre, pre.pc, 0))
             /\ vm.pc = pre.pc + 2
             /\ SameCells(vm, pre)
             /\ vm.rb = pre.rb
             /\ vm.state = pre.state
             /\ vm.inputs = pre.inputs
    /\ Idle("get_outputs")
          => /\ ret.outs = pre.outputs
             /\ vm = [pre EXCEPT !.outputs = <<>>]
    /\ produced = drained \o vm.outputs

(* get_outputs() has just drained two different values. *)
C7_Witness ==
    /\ Idle("get_outputs")
    /\ Len(ret.outs) = 2
    /\ ret.outs[1] # ret.outs[2]
    /\ vm.outputs = <<>>

---------------------------------------------------------------------------
(* C8: the values stored by the Input instructions executed so far are, in *)
(* order, the first values ever passed to add_inputs, and the values       *)
(* passed to add_inputs are these followed by the values still queued: no  *)
(* value supplied is skipped or delivered twice.                           *)
C8_InputFifo ==
    /\ Len(stored) <= Len(supplied)
    /\ stored = SubSeq(supplied, 1, Len(stored))
    /\ supplied = stored \o vm.inputs

---------------------------------------------------------------------------
(* C9: add_inputs(values) returns without an error in every state of the   *)
(* Vm and leaves the Vm as it was but for the input queue, which is the    *)
(* old queue followed by the values in slice order.                        *)
C9_AddInputs ==
    Idle("add_inputs")
    => /\ ret = OkUnit
       /\ vm.inputs = pre.inputs \o op.xs
       /\ vm = [pre EXCEPT !.inputs = vm.inputs]

(* add_inputs has put two different values behind a queued one, on a       *)
(* blocked Vm.                                                             *)
C9_Witness ==
    /\ Idle("add_inputs")
    /\ pre.state = "WaitingForInput"
    /\ pre.inputs # <<>>
    /\ Len(op.xs) = 2
    /\ op.xs[1] # op.xs[2]
    /\ vm.state = "WaitingForInput"

---------------------------------------------------------------------------
(* C10: is_running() returns true exactly when the state is not Stopped    *)
(* and changes nothing: it holds of a freshly constructed Vm and of a Vm   *)
(* in WaitingForInput, it is false once a step has executed Halt, and      *)
(* once false it stays false.                                              *)
C10_IsRunning ==
    /\ op.name = "new" => is_running(vm)
    /\ vm.state = "WaitingForInput" => is_running(vm)
    /\ (log # <<>> /\ log[Len(log)].op = "End") => ~is_running(vm)
    /\ ~is_running(pre) => ~is_running(vm)
    /\ Idle("is_running")
          => /\ (ret.tag = "True") <=> (vm.state # "Stopped")
             /\ ret.tag \in {"True", "False"}
             /\ vm = pre

(* is_running() has just answered true on a blocked Vm. *)
C10_Witness ==
    /\ Idle("is_running")
    /\ vm.state = "WaitingForInput"
    /\ ret.tag = "True"

---------------------------------------------------------------------------
(* More vocabulary: what a step made on v does before it executes.         *)

(* The step gets to fetch the word at the pc: the Vm is neither stopped    *)
(* nor suspended on an empty queue.                                        *)
Fetches(v) == v.state # "Stopped" /\ ~(v.state = "WaitingForInput" /\ v.inputs = <<>>)

(* Word w is an instruction: its last two digits are an opcode and the     *)
(* digit of each parameter of that opcode is a mode.                       *)
Decodes(w) ==
    /\ w >= 0
    /\ (w % 100) \in Opcodes \cup {99}
    /\ \A k \in 0..(Arity(w % 100) - 1) : ModeDigit(w, k) \in {0, 1, 2}

(* The address parameter k (0-based) of the instruction at address p of v  *)
(* resolves to.                                                            *)
ParamAddr(v, p, k) ==
    LET m == ModeDigit(MemAt(v, p), k) IN
    IF m = 1 THEN p + 1 + k
    ELSE IF m = 0 THEN MemAt(v, p + 1 + k)
    ELSE MemAt(v, p + 1 + k) + v.rb

(* The parameters the instruction at address p of v resolves: all of its   *)
(* opcode's, but none for an Input that finds the queue empty.             *)
ParamsOf(v, p) ==
    IF MemAt(v, p) % 100 = 3 /\ v.inputs = <<>> THEN {}
    ELSE 0..(Arity(MemAt(v, p) % 100) - 1)

(* The addresses whose value differs between u and v. *)
Changed(u, v) ==
    { a \in 0..MaxMem : MemAt(u, a) # MemAt(v, a) }

(* v's memory is u's, extended with zeros to hold address a. *)
GrownTo(u, v, a) ==
    v.memory = u.memory \o Zeros(IF a >= Len(u.memory) THEN a + 1 - Len(u.memory) ELSE 0)

---------------------------------------------------------------------------
(* C11: the memory never gets shorter; read_at and write_at at an address  *)
(* a >= 0 leave the length a + 1 when a is at or beyond it and unchanged   *)
(* otherwise, as do the fetch of an instruction at a pc beyond the memory  *)
(* and the fetch of a Position-mode operand beyond it; the cells created   *)
(* hold 0 but for the target of a write, and every cell that existed       *)
(* keeps its value but for the one cell a write_at or a step writes.       *)
C11_MemoryGrows ==
    /\ Len(vm.memory) >= Len(pre.memory)
    /\ (Idle("read_at") /\ op.addr >= 0)
          => GrownTo(pre, vm, op.addr)
    /\ (Idle("write_at") /\ op.addr >= 0)
          => /\ Len(vm.memory) = (IF op.addr >= Len(pre.memory) THEN op.addr + 1 ELSE Len(pre.memory))
             /\ MemAt(vm, op.addr) = op.val
             /\ Changed(pre, vm) \subseteq {op.addr}
    /\ (Idle("step") /\ Fetches(pre) /\ pre.pc >= Len(pre.memory))
          => GrownTo(pre, vm, pre.pc)
    /\ ( /\ Idle("step") /\ Fetches(pre)
         /\ log[1].op = "Output"
         /\ ModeDigit(MemAt(pre, pre.pc), 0) = 0
         /\ pre.pc + 1 < Len(pre.memory) )
          => GrownTo(pre, vm, MemAt(pre, pre.pc + 1))
    /\ Idle("step")
          => /\ Cardinality(Changed(pre, vm)) <= 1
             /\ log[1].op \in {"None", "Output", "JumpIfTrue", "JumpIfFalse",
                               "RelativeBaseOffset", "End"}
                   => Changed(pre, vm) = {}
    /\ (Idle("is_running") \/ Idle("get_outputs") \/ Idle("add_inputs"))
          => vm.memory = pre.memory

(* write_at has just written two or more cells beyond the end of memory. *)
C11_Witness ==
    /\ Idle("write_at")
    /\ op.addr > Len(pre.memory)
    /\ Len(vm.memory) = op.addr + 1
    /\ MemAt(vm, op.addr) = op.val
    /\ MemAt(vm, op.addr - 1) = 0

---------------------------------------------------------------------------
(* C12: read_at and write_at fail, with InvalidAddress carrying the        *)
(* address, exactly when the address is negative, and then leave the Vm as *)
(* it was; a step fails with InvalidAddress exactly when the pc is         *)
(* negative or, the word at the pc being an instruction, one of the        *)
(* addresses its parameters resolve to (the literal in Position mode, the  *)
(* literal plus the relative base in Relative mode) is negative; the error *)
(* carries the first such address and no cell has changed value.           *)
C12_InvalidAddress ==
    /\ (Idle("read_at") \/ Idle("write_at"))
          => /\ (ret.tag = "InvalidAddress") <=> (op.addr < 0)
             /\ op.addr < 0 => (ret = InvalidAddress(op.addr) /\ vm = pre)
             /\ ret.tag \in {"Ok", "InvalidAddress"}
    /\ (Idle("step") /\ Fetches(pre))
          => LET p   == pre.pc
                 bad == { k \in ParamsOf(pre, p) : ParamAddr(pre, p, k) < 0 }
             IN  /\ p < 0 => (ret = InvalidAddress(p) /\ vm.memory = pre.memory)
                 /\ (p >= 0 /\ ~Decodes(MemAt(pre, p))) => ret.tag # "InvalidAddress"
                 /\ (p >= 0 /\ Decodes(MemAt(pre, p)))
                       => /\ (ret.tag = "InvalidAddress") <=> (bad # {})
                          /\ \A k \in bad :
                                (\A j \in bad : k <= j) => ret = InvalidAddress(ParamAddr(pre, p, k))
                          /\ bad # {} => Changed(pre, vm) = {}
    /\ (Idle("step") /\ ~Fetches(pre)) => ret.tag # "InvalidAddress"

(* A step has just failed on a Relative-mode operand whose literal is not  *)
(* negative but whose address is.                                          *)
C12_Witness ==
    /\ Idle("step")
    /\ pre.pc >= 0
    /\ ModeDigit(MemAt(pre, pre.pc), 0) = 2
    /\ MemAt(pre, pre.pc + 1) >= 0
    /\ ret = InvalidAddress(MemAt(pre, pre.pc + 1) + pre.rb)
    /\ ret.addr < 0

---------------------------------------------------------------------------
(* Word w is one the decoder is to reject: w mod 100 is no opcode, or the  *)
(* digit of one of the parameters of opcode w mod 100 is not 0, 1 or 2.    *)
(* mod and the digits are those of i64 arithmetic (% and /), under which   *)
(* w mod 100 of a negative word is not positive.                           *)
BadWord(w) ==
    LET o == RustRem(w, 100) IN
    \/ o \notin Opcodes \cup {99}
    \/ \E k \in 0..(Arity(o) - 1) : RustRem(RustDiv(w, Pow10(k + 2)), 10) \notin {0, 1, 2}

ModeName(d) == IF d = 0 THEN "Position" ELSE IF d = 1 THEN "Immediate" ELSE "Relative"

(* C13: a step that fetches a word the decoder is to reject fails with     *)
(* InvalidOpcode; for every other word the step does not fail with         *)
(* InvalidOpcode and the decoder yields the opcode w mod 100 with, for     *)
(* each of its parameters, the mode Position, Immediate or Relative for    *)
(* the digit 0, 1 or 2, and the instruction the step completes is that of  *)
(* opcode w mod 100.                                                       *)
C13_Decoding ==
    (Idle("step") /\ Fetches(pre) /\ pre.pc >= 0)
    => LET w == MemAt(pre, pre.pc)
           d == read_opcode(Resume(pre))
       IN  /\ BadWord(w) => (ret.tag = "InvalidOpcode" /\ Failed(d))
           /\ ~BadWord(w)
                 => /\ ret.tag # "InvalidOpcode"
                    /\ ~Failed(d)
                    /\ d.op = OpName(w % 100)
                    /\ Len(d.modes) = Arity(w % 100)
                    /\ \A k \in 0..(Arity(w % 100) - 1) :
                          d.modes[k + 1] = ModeName(ModeDigit(w, k))
                    /\ log[1].op \in {"None", OpName(w % 100)}
                    /\ ret.tag = "Ok" => (log[1].op = "None") = (w % 100 = 3 /\ pre.inputs = <<>>)

(* A step has just executed an instruction whose three mode digits are     *)
(* 0, 1 and 2.                                                             *)
C13_Witness ==
    /\ Idle("step")
    /\ pre.pc = 2
    /\ ~BadWord(MemAt(pre, 2))
    /\ ModeDigit(MemAt(pre, 2), 0) = 0
    /\ ModeDigit(MemAt(pre, 2), 1) = 1
    /\ ModeDigit(MemAt(pre, 2), 2) = 2
    /\ log[1].op = "Mul"
    /\ ret = OkState("Running")

---------------------------------------------------------------------------
(* C14: a step that fails with InvalidOpcode returns the word stored at    *)
(* the address it fetched from and that address.                           *)
C14_CarriesWord ==
    (Idle("step") /\ ret.tag = "InvalidOpcode")
    => (ret.val = MemAt(pre, pre.pc) /\ ret.addr = pre.pc)

---------------------------------------------------------------------------
(* C15: a step that fails with InvalidOpcode leaves the Vm as it was:      *)
(* state, pc, relative base, memory and both queues.                       *)
C15_FailedDecodeNoChange ==
    (Idle("step") /\ ret.tag = "InvalidOpcode")
    => /\ vm.state = pre.state
       /\ vm.pc = pre.pc
       /\ vm.rb = pre.rb
       /\ Changed(pre, vm) = {}
       /\ vm.inputs = pre.inputs
       /\ vm.outputs = pre.outputs

---------------------------------------------------------------------------
(* What opcode o is to store, given the values a and b of its operands. *)
Computes(o, a, b) ==
    CASE o = 1 -> a + b
      [] o = 2 -> a * b
      [] o = 7 -> (IF a < b THEN 1 ELSE 0)
      [] o = 8 -> (IF a = b THEN 1 ELSE 0)

(* The step made on pre completed a three-operand instruction. *)
DidArith == Idle("step") /\ log[1].op \in {"Add", "Mul", "LessThan", "Equals"}

(* C16: a step that executes opcode 1, 2, 7 or 8 at address p with a       *)
(* Position- or Relative-mode destination returns Running and leaves       *)
(* memory[dst] equal to a + b, a * b, (1 if a < b else 0), (1 if a = b     *)
(* else 0), a and b being the operands as they were before the step; the   *)
(* pc is p + 4, the state Running, and no other cell, nor the relative     *)
(* base, nor a queue has changed.  On [1,0,0,0,99] the first step leaves   *)
(* memory[0] = 2 and the second halts.                                     *)
C16_ThreeOperand ==
    /\ (DidArith /\ ModeDigit(MemAt(pre, pre.pc), 2) \in {0, 2})
          => LET p   == pre.pc
                 o   == MemAt(pre, p) % 100
                 a   == ReadOperand(pre, p, 0)
                 b   == ReadOperand(pre, p, 1)
                 dst == ParamAddr(pre, p, 2)
             IN  /\ ret = OkState("Running")
                 /\ log[1].op = OpName(o)
                 /\ dst >= 0 /\ dst < Len(vm.memory)
                 /\ MemAt(vm, dst) = Computes(o, a, b)
                 /\ Changed(pre, vm) \subseteq {dst}
                 /\ vm.pc = p + 4
                 /\ vm.state = "Running"
                 /\ vm.rb = pre.rb
                 /\ vm.inputs = pre.inputs
                 /\ vm.outputs = pre.outputs
    /\ (Idle("step") /\ pre = new(<<1, 0, 0, 0, 99>>))
          => (vm.memory = <<2, 0, 0, 0, 99>> /\ vm.pc = 4 /\ ret = OkState("Running"))
    /\ (Idle("step") /\ pre = [new(<<2, 0, 0, 0, 99>>) EXCEPT !.pc = 4])
          => (ret = OkState("Stopped") /\ vm.state = "Stopped")

(* A step has just executed a LessThan whose operands are equal, the       *)
(* first read in Relative mode with a base that is not 0, and whose        *)
(* destination is the cell its first operand was read from.                *)
C16_Witness ==
    /\ DidArith
    /\ log[1].op = "LessThan"
    /\ ModeDigit(MemAt(pre, pre.pc), 0) = 2
    /\ ModeDigit(MemAt(pre, pre.pc), 2) = 0
    /\ pre.rb # 0
    /\ ReadOperand(pre, pre.pc, 0) = ReadOperand(pre, pre.pc, 1)
    /\ ParamAddr(pre, pre.pc, 2) = ParamAddr(pre, pre.pc, 0)
    /\ MemAt(vm, ParamAddr(pre, pre.pc, 2)) = 0
    /\ MemAt(pre, ParamAddr(pre, pre.pc, 2)) # 0

---------------------------------------------------------------------------
(* The step made on pre completed a conditional jump. *)
DidJump == Idle("step") /\ log[1].op \in {"JumpIfTrue", "JumpIfFalse"}

(* The jump at address p of v is taken. *)
Taken(v, p) ==
    \/ MemAt(v, p) % 100 = 5 /\ ReadOperand(v, p, 0) # 0
    \/ MemAt(v, p) % 100 = 6 /\ ReadOperand(v, p, 0) = 0

(* C17: a step that executes opcode 5 (resp. 6) at address p leaves the pc *)
(* at the value of its second operand when the first is not 0 (resp. is    *)
(* 0) and at p + 3 otherwise; it returns Running, the state is Running,    *)
(* and no cell, nor the relative base, nor a queue has changed.            *)
C17_Jumps ==
    DidJump
    => LET p == pre.pc IN
       /\ log[1].op = OpName(MemAt(pre, p) % 100)
       /\ vm.pc = (IF Taken(pre, p) THEN ReadOperand(pre, p, 1) ELSE p + 3)
       /\ ret = OkState("Running")
       /\ vm.state = "Running"
       /\ Changed(pre, vm) = {}
       /\ vm.rb = pre.rb
       /\ vm.inputs = pre.inputs
       /\ vm.outputs = pre.outputs

(* A JumpIfFalse has just been taken, away from the next instruction. *)
C17_Witness ==
    /\ DidJump
    /\ log[1].op = "JumpIfFalse"
    /\ ReadOperand(pre, pre.pc, 0) = 0
    /\ vm.pc = ReadOperand(pre, pre.pc, 1)
    /\ vm.pc # pre.pc + 3

---------------------------------------------------------------------------
(* C18: a step that completes an instruction at address p, other than a    *)
(* jump that is taken, leaves the pc at p + 1 + the number of parameters   *)
(* of its opcode: 4 more for 1, 2, 7, 8; 3 for 5, 6; 2 for 3, 4, 9; 1 for  *)
(* 99.                                                                     *)
C18_InstructionLength ==
    (Idle("step") /\ log[1].op # "None" /\ ~(DidJump /\ Taken(pre, pre.pc)))
    => LET o == MemAt(pre, pre.pc) % 100 IN
       /\ o \in {1, 2, 7, 8} => vm.pc = pre.pc + 4
       /\ o \in {5, 6} => vm.pc = pre.pc + 3
       /\ o \in {3, 4, 9} => vm.pc = pre.pc + 2
       /\ o = 99 => vm.pc = pre.pc + 1
       /\ o \in Opcodes \cup {99}

(* A suspended Input has just been executed and the pc moved past its one  *)
(* parameter.                                                              *)
C18_Witness ==
    /\ Idle("step")
    /\ pre.state = "WaitingForInput"
    /\ log[1].op = "Input"
    /\ pre.pc = 2
    /\ vm.pc = 4

---------------------------------------------------------------------------
(* C19: the relative base is 0 in a Vm just constructed; a step that       *)
(* executes opcode 9 adds the value of its operand to it; and a call       *)
(* during which no opcode 9 was executed (add_inputs, get_outputs,         *)
(* read_at, write_at, is_running, a step or run of other instructions, a   *)
(* failed or a blocked step) leaves it as it was.                          *)
C19_RelativeBase ==
    /\ op.name = "new" => vm.rb = 0
    /\ (Idle("step") /\ log[1].op = "RelativeBaseOffset")
          => vm.rb = pre.rb + ReadOperand(pre, pre.pc, 0)
    /\ (\A k \in 1..Len(log) : log[k].op # "RelativeBaseOffset")
          => vm.rb = pre.rb

(* Opcode 9 has just moved a relative base that was not 0. *)
C19_Witness ==
    /\ Idle("step")
    /\ log[1].op = "RelativeBaseOffset"
    /\ pre.rb # 0
    /\ ReadOperand(pre, pre.pc, 0) # 0
    /\ vm.rb = pre.rb + ReadOperand(pre, pre.pc, 0)

---------------------------------------------------------------------------
(* C20: what an executed instruction does with its operands is what it     *)
(* does with the values an Immediate operand w has as w, a Position        *)
(* operand as memory[w] and a Relative operand as memory[w + rb], rb as    *)
(* it is at that step, whatever the modes: Output pushes that value,       *)
(* opcode 9 adds it to the base, a jump tests the first and goes to the    *)
(* second, opcodes 1, 2, 7, 8 store the function of the two.  On           *)
(* [1101,100,-1,4,0] the first step stores 99 at address 4 and the second  *)
(* halts.                                                                  *)
C20_ReadOperands ==
    /\ (Idle("step") /\ log[1].op # "None")
          => LET p == pre.pc
                 a == ReadOperand(pre, p, 0)
                 b == ReadOperand(pre, p, 1)
             IN  /\ log[1].op = "Output" => vm.outputs = Append(pre.outputs, a)
                 /\ log[1].op = "RelativeBaseOffset" => vm.rb - pre.rb = a
                 /\ log[1].op = "JumpIfTrue" => vm.pc = (IF a # 0 THEN b ELSE p + 3)
                 /\ log[1].op = "JumpIfFalse" => vm.pc = (IF a = 0 THEN b ELSE p + 3)
                 /\ DidArith
                       => \E dst \in 0..(Len(vm.memory) - 1) :
                             /\ MemAt(vm, dst) = Computes(MemAt(pre, p) % 100, a, b)
                             /\ Changed(pre, vm) \subseteq {dst}
    /\ (Idle("step") /\ pre = new(<<1101, 100, -1, 4, 0>>))
          => (vm.memory = <<1101, 100, -1, 4, 99>> /\ vm.pc = 4 /\ ret = OkState("Running"))
    /\ (Idle("step") /\ pre = [new(<<1101, 100, -1, 4, 99>>) EXCEPT !.pc = 4])
          => (ret = OkState("Stopped") /\ vm.state = "Stopped")

(* An Output has just pushed the value of a Relative-mode operand, which   *)
(* is not the value at the address of its literal.                         *)
C20_Witness ==
    /\ Idle("step")
    /\ log[1].op = "Output"
    /\ ModeDigit(MemAt(pre, pre.pc), 0) = 2
    /\ pre.rb # 0
    /\ vm.outputs = <<MemAt(pre, MemAt(pre, pre.pc + 1) + pre.rb)>>
    /\ MemAt(pre, MemAt(pre, pre.pc + 1) + pre.rb) # MemAt(pre, MemAt(pre, pre.pc + 1))

---------------------------------------------------------------------------
(* The step made on pre completed an instruction that writes: opcode 1, 2, *)
(* 3, 7 or 8.                                                              *)
DidWrite == DidArith \/ (Idle("step") /\ log[1].op = "Input")

(* The (0-based) parameter of opcode o that is its destination. *)
DestParam(o) == Arity(o) - 1

(* C21: a step that executes opcode 1, 2, 3, 7 or 8 at address p, the      *)
(* destination parameter word being w, writes its value to memory[w] when  *)
(* the mode of that parameter is Position and to memory[w + rb] when it is *)
(* Relative, and changes no other cell: the cell holding w keeps w unless  *)
(* it is the destination.                                                  *)
C21_WriteOperand ==
    DidWrite
    => LET p    == pre.pc
           o    == MemAt(pre, p) % 100
           k    == DestParam(o)
           w    == MemAt(pre, p + 1 + k)
           m    == ModeDigit(MemAt(pre, p), k)
           dst  == IF m = 0 THEN w ELSE w + pre.rb
           val  == IF o = 3 THEN Head(pre.inputs)
                   ELSE Computes(o, ReadOperand(pre, p, 0), ReadOperand(pre, p, 1))
       IN  m \in {0, 2}
           => /\ dst >= 0 /\ dst < Len(vm.memory)
              /\ MemAt(vm, dst) = val
              /\ Changed(pre, vm) \subseteq {dst}
              /\ dst # p + 1 + k => MemAt(vm, p + 1 + k) = w

(* An Input has just stored a value through a Relative-mode destination,   *)
(* the base not 0, in a cell that is not the parameter cell and held       *)
(* another value.                                                          *)
C21_Witness ==
    /\ Idle("step")
    /\ log[1].op = "Input"
    /\ ModeDigit(MemAt(pre, pre.pc), 0) = 2
    /\ pre.rb # 0
    /\ MemAt(pre, pre.pc + 1) + pre.rb # pre.pc + 1
    /\ Changed(pre, vm) = {MemAt(pre, pre.pc + 1) + pre.rb}
    /\ MemAt(vm, MemAt(pre, pre.pc + 1) + pre.rb) = Head(pre.inputs)

---------------------------------------------------------------------------
(* C22: a step that fetches an instruction of opcode 1, 2, 3, 7 or 8 whose *)
(* destination parameter has the mode digit 1 (an Input that finds the     *)
(* queue empty, and suspends, left aside) returns an error and changes the *)
(* value of no cell.                                                       *)
C22_ImmediateDestFails ==
    ( /\ Idle("step") /\ Fetches(pre) /\ pre.pc >= 0
      /\ ~BadWord(MemAt(pre, pre.pc))
      /\ ParamsOf(pre, pre.pc) # {}
      /\ (MemAt(pre, pre.pc) % 100) \in {1, 2, 3, 7, 8}
      /\ ModeDigit(MemAt(pre, pre.pc), DestParam(MemAt(pre, pre.pc) % 100)) = 1 )
    => (IsErr(ret) /\ Changed(pre, vm) = {})

---------------------------------------------------------------------------
(* C23: a step on a Running Vm whose word at the pc has opcode 99 returns  *)
(* Stopped and leaves the state Stopped and the pc past the word; the      *)
(* memory, the relative base, the input queue and the output queue are as  *)
(* they were, so that get_outputs() after the halt yields the values       *)
(* queued before it, and no other call on the stopped Vm takes them away.  *)
C23_Halt ==
    /\ ( /\ Idle("step") /\ pre.state = "Running" /\ pre.pc >= 0
         /\ RustRem(MemAt(pre, pre.pc), 100) = 99 )
          => /\ ret = OkState("Stopped")
             /\ vm = [pre EXCEPT !.state = "Stopped", !.pc = pre.pc + 1]
             /\ log = <<[pc |-> pre.pc, op |-> "End"]>>
    /\ (Idle("get_outputs") /\ pre.state = "Stopped")
          => (ret.outs = pre.outputs /\ vm.state = "Stopped")
    /\ (host = "idle" /\ pre.state = "Stopped" /\ op.name \notin {"get_outputs", "run_until_output"})
          => vm.outputs = pre.outputs

(* A Vm has just halted with two values in its output queue. *)
C23_Witness ==
    /\ Idle("step")
    /\ pre.state = "Running"
    /\ log[1].op = "End"
    /\ Len(pre.outputs) = 2
    /\ vm.outputs = pre.outputs
    /\ vm.state = "Stopped"

---------------------------------------------------------------------------
(* The twin's run has returned. *)
TwinDone == twin.program # <<>> /\ twin.ret # Pending

(* The run of the Vm fed as it blocks has returned for good: with          *)
(* something else than NoMoreInput, or with nothing left to feed.          *)
LazyDone == Idle("run") /\ (ret # NoMoreInput \/ twin.todo = <<>>)

(* C24: when the Vm given the whole input sequence before its run and the  *)
(* Vm given each value only once it has blocked have both finished, the    *)
(* two have output the same sequence and have the same memory, state, pc   *)
(* and relative base, their last run returned the same, and the values one *)
(* has not consumed are those the other has not consumed or was never      *)
(* fed.  On [3,0,4,0,99] with input X each has output exactly <<X>>.       *)
C24_InputTiming ==
    (TwinDone /\ LazyDone)
    => /\ vm.outputs = twin.vm.outputs
       /\ produced = vm.outputs
       /\ vm.memory = twin.vm.memory
       /\ vm.state = twin.vm.state
       /\ vm.pc = twin.vm.pc
       /\ vm.rb = twin.vm.rb
       /\ ret = twin.ret
       /\ vm.inputs \o twin.todo = twin.vm.inputs
       /\ (twin.program = <<3, 0, 4, 0, 99>> /\ supplied # <<>>)
             => (vm.outputs = <<supplied[1]>> /\ twin.vm.outputs = <<supplied[1]>>)

(* Both have finished, the one after it blocked and was fed three times,   *)
(* with three values output.                                               *)
C24_Witness ==
    /\ TwinDone
    /\ LazyDone
    /\ Len(supplied) = 3
    /\ Len(vm.outputs) = 3
    /\ vm.outputs = twin.vm.outputs
    /\ vm.outputs = supplied

---------------------------------------------------------------------------
(* C25: the pc of the Vm is never negative. *)
C25_PcNonNegative == vm.pc >= 0

---------------------------------------------------------------------------
(* C26: on the Vm constructed from the quine, with no input, no call       *)
(* returns an error; run() returns Ok with the state Stopped, and once the *)
(* state is Stopped the output queue holds the 16 words of the program in  *)
(* order, the memory has grown to hold addresses 100 and 101 (the counter, *)
(* 16, and the flag, 1) and the program itself is as it was.  Until then   *)
(* the queue holds the first words of the program.                         *)
C26_Quine ==
    /\ ~IsErr(ret)
    /\ Idle("run") => (ret = OkUnit /\ vm.state = "Stopped")
    /\ vm.state = "Stopped"
          => /\ vm.outputs = Quine
             /\ Len(vm.memory) = 102
             /\ MemAt(vm, 100) = 16
             /\ MemAt(vm, 101) = 1
             /\ SubSeq(vm.memory, 1, 16) = Quine
    /\ Len(vm.outputs) <= Len(Quine)
    /\ vm.outputs = SubSeq(Quine, 1, Len(vm.outputs))
    /\ vm.inputs = <<>>

(* run() on the Vm just constructed has returned. *)
C26_Witness ==
    /\ Idle("run")
    /\ pre = new(Quine)
    /\ ret = OkUnit
    /\ vm.state = "Stopped"
    /\ vm.outputs = Quine
    /\ Len(log) > 16

---------------------------------------------------------------------------
(* The edges of the state that hold of every call: a call other than step, *)
(* run and run_until_output leaves the state as it was; a step takes       *)
(* Running to WaitingForInput only on opcode 3 with the queue empty, and   *)
(* to Stopped only by executing opcode 99; it takes WaitingForInput to     *)
(* Running when the queue is not empty and leaves it when it is; nothing   *)
(* leaves Stopped.                                                         *)
StateEdges ==
    /\ (host = "idle" /\ op.name \notin {"step", "run", "run_until_output"})
          => vm.state = pre.state
    /\ pre.state = "Stopped" => vm.state = "Stopped"
    /\ (Idle("step") /\ pre.state = "Running" /\ vm.state = "WaitingForInput")
          => /\ pre.pc >= 0
             /\ MemAt(pre, pre.pc) % 100 = 3
             /\ pre.inputs = <<>>
    /\ (Idle("step") /\ pre.state = "Running" /\ vm.state = "Stopped")
          => (log[1].op = "End" /\ MemAt(pre, pre.pc) % 100 = 99)
    /\ (Idle("step") /\ pre.state = "WaitingForInput")
          => (vm.state = "WaitingForInput") = (pre.inputs = <<>>)

(* C27 as stated: the edges above, and no step takes WaitingForInput to    *)
(* Stopped.                                                                *)
C27_OnlyTheseEdges ==
    /\ StateEdges
    /\ (Idle("step") /\ pre.state = "WaitingForInput") => vm.state # "Stopped"

(* C27, amended: the edges above, and no step takes WaitingForInput to     *)
(* Stopped while the word at the pc is an Input instruction; a step that   *)
(* does has found the word at the pc overwritten, by write_at, with a word *)
(* of opcode 99.                                                           *)
C27_StateEdges ==
    /\ StateEdges
    /\ (Idle("step") /\ pre.state = "WaitingForInput" /\ InputAt(pre, pre.pc))
          => vm.state = (IF pre.inputs = <<>> THEN "WaitingForInput" ELSE "Running")
    /\ (Idle("step") /\ pre.state = "WaitingForInput" /\ vm.state = "Stopped")
          => /\ pokes > 0
             /\ MemAt(pre, pre.pc) % 100 = 99
             /\ pre.inputs # <<>>

(* A suspended Vm has just resumed on its Input instruction, after a       *)
(* write_at elsewhere.                                                     *)
C27_Witness ==
    /\ Idle("step")
    /\ pre.state = "WaitingForInput"
    /\ pre.inputs # <<>>
    /\ pokes > 0
    /\ InputAt(pre, pre.pc)
    /\ vm.state = "Running"
    /\ log[1].op = "Input"

---------------------------------------------------------------------------
(* C28: whenever the state is WaitingForInput the pc is on the word the    *)
(* suspending step decoded, which is an Input instruction, and that word   *)
(* is still there unless a write_at has put its value in its place; and    *)
(* every transition that makes the state WaitingForInput starts and ends   *)
(* with the input queue empty.                                             *)
C28_BlockedOnInput ==
    /\ [](vm.state = "WaitingForInput"
            => /\ vm.pc = blocked.at
               /\ InputWord(blocked.word)
               /\ \/ MemAt(vm, vm.pc) = blocked.word
                  \/ pokes > 0 /\ MemAt(vm, vm.pc) \in PokeVals
               /\ pokes = 0 => MemAt(vm, vm.pc) % 100 = 3)
    /\ [][(vm.state # "WaitingForInput" /\ vm'.state = "WaitingForInput")
            => (vm.inputs = <<>> /\ vm'.inputs = <<>>)]_vars

(* The Vm is suspended on its second Input, after a write_at elsewhere. *)
C28_Witness ==
    /\ vm.state = "WaitingForInput"
    /\ vm.pc > 0
    /\ pokes > 0
    /\ stored # <<>>
    /\ MemAt(vm, vm.pc) % 100 = 3
    /\ MemAt(vm, vm.pc) = blocked.word

---------------------------------------------------------------------------
(* C29: a step that returns an error leaves the input queue as it was. *)
C29_FailedStepKeepsInput ==
    (Idle("step") /\ IsErr(ret)) => vm.inputs = pre.inputs

---------------------------------------------------------------------------
(* The last call was a step that failed with InvalidOpcode or              *)
(* InvalidAddress.                                                         *)
StepFailed == Idle("step") /\ ret.tag \in {"InvalidOpcode", "InvalidAddress"}

(* C30: after a step that fails with InvalidOpcode or InvalidAddress the   *)
(* state is Running or WaitingForInput and is_running() holds; a step()    *)
(* that follows does not return the Stopped error: it fetches at the pc    *)
(* the failed step left, failing with InvalidAddress when that pc is       *)
(* negative and with InvalidOpcode exactly when the word there is one the  *)
(* decoder rejects.                                                        *)
C30_ErrorsDoNotStop ==
    /\ [](StepFailed => (vm.state \in {"Running", "WaitingForInput"} /\ is_running(vm)))
    /\ [][(StepFailed /\ host' = "idle" /\ op'.name = "step")
            => /\ ret' # Stopped
               /\ log' = <<[pc |-> vm.pc, op |-> log'[1].op]>>
               /\ vm.pc < 0 => ret' = InvalidAddress(vm.pc)
               /\ vm.pc >= 0 => ((ret'.tag = "InvalidOpcode") = BadWord(MemAt(vm, vm.pc)))]_vars

(* The step after the one that failed on the first word of [50, 99] has    *)
(* executed the second.                                                    *)
C30_Witness ==
    /\ Idle("step")
    /\ pre = [new(<<50, 99>>) EXCEPT !.pc = 1]
    /\ ret = OkState("Stopped")

---------------------------------------------------------------------------
(* C31: a step that fetches a negative word fails with InvalidOpcode, and  *)
(* the opcode it reports is the remainder of the word by 100 with the sign *)
(* of the word, which is no opcode; the step does nothing but move the pc  *)
(* past the word.                                                          *)
C31_NegativeWords ==
    (Idle("step") /\ Fetches(pre) /\ pre.pc >= 0 /\ MemAt(pre, pre.pc) < 0)
    => LET w == MemAt(pre, pre.pc) IN
       /\ ret = InvalidOpcode(-((-w) % 100), pre.pc)
       /\ ret.val <= 0
       /\ ret.val \notin Opcodes \cup {99}
       /\ log[1].op = "None"
       /\ vm = [Resume(pre) EXCEPT !.pc = pre.pc + 1]

(* A step has fetched the word -99 and failed on it. *)
C31_Witness ==
    /\ Idle("step")
    /\ pre.pc = 2
    /\ MemAt(pre, 2) = -99
    /\ ret = InvalidOpcode(-99, 2)

---------------------------------------------------------------------------
(* Word w without the digits above the modes of its opcode's parameters. *)
Strip(w) == w % Pow10(Arity(w % 100) + 2)

(* Words of the three-operand opcodes and others with digits above the     *)
(* modes, too large for the memories of the specifications.                *)
SpareSamples == {100001, 320002, 5001207, 9910108, 70003, 4104, 51005, 1000099, 99999}

(* The decoder's answer to a memory holding the only word w. *)
Decoded(w) == LET d == read_opcode(new(<<w>>)) IN [err |-> d.err, op |-> d.op, modes |-> d.modes]

(* C32: a word whose mode digits are modes decodes, whatever its higher    *)
(* digits, to the instruction of the word without them: the step does not  *)
(* fail with InvalidOpcode and completes that instruction.  3003 is Input  *)
(* with a Position destination, 30004 Output in Position mode, 199 Halt.   *)
C32_SpareDigits ==
    /\ (Idle("step") /\ Fetches(pre) /\ pre.pc >= 0 /\ MemAt(pre, pre.pc) \in SpareDigitWords)
       => LET w == MemAt(pre, pre.pc)
              d == read_opcode(Resume(pre))
              e == read_opcode([Resume(pre) EXCEPT !.memory[pre.pc + 1] = Strip(w)])
          IN  /\ Strip(w) # w
              /\ ret.tag # "InvalidOpcode"
              /\ ~Failed(d)
              /\ d.op = OpName(w % 100)
              /\ d.op = e.op
              /\ d.modes = e.modes
              /\ log[1].op \in {"None", d.op}
              /\ (log[1].op = "None" /\ ret.tag = "Ok") => (d.op = "Input" /\ pre.inputs = <<>>)
              /\ w = 3003 => (d.op = "Input" /\ d.modes = <<"Position">>)
              /\ w = 30004 => (d.op = "Output" /\ d.modes = <<"Position">>)
              /\ w = 199 => (d.op = "End" /\ ret = OkState("Stopped"))
    /\ \A w \in SpareSamples \cup SpareDigitWords :
          /\ Strip(w) # w
          /\ Decoded(w) = Decoded(Strip(w))
          /\ Decoded(w).err = NoError

(* A step has executed the word 30004 as an Output in Position mode. *)
C32_Witness ==
    /\ Idle("step")
    /\ pre.pc = 2
    /\ MemAt(pre, 2) = 30004
    /\ log[1].op = "Output"
    /\ ret = OkState("Running")
    /\ produced = <<MemAt(pre, MemAt(pre, 3))>>

---------------------------------------------------------------------------
(* C33: run_until_output() on a stopped Vm returns the front of the output *)
(* queue and removes it, without a step, while the queue is not empty, and *)
(* fails with Stopped, changing nothing, when it is empty.  A call that    *)
(* returned no output leaves the Vm stopped with the queue empty, and from *)
(* such a state the Vm stays so and every run_until_output() fails with    *)
(* Stopped.                                                                *)
C33_RunUntilOutputStopped ==
    /\ []((Idle("run_until_output") /\ pre.state = "Stopped")
            => IF pre.outputs # <<>>
               THEN /\ ret = SomeVal(Head(pre.outputs))
                    /\ vm = [pre EXCEPT !.outputs = Tail(pre.outputs)]
                    /\ log = <<>>
               ELSE /\ ret = Stopped
                    /\ vm = pre)
    /\ []((Idle("run_until_output") /\ ret = NoneVal)
            => (vm.state = "Stopped" /\ vm.outputs = <<>>))
    /\ [][(vm.state = "Stopped" /\ vm.outputs = <<>>)
            => /\ vm'.state = "Stopped"
               /\ vm'.outputs = <<>>
               /\ (host' = "idle" /\ op'.name = "run_until_output") => ret' = Stopped]_vars

(* run_until_output() has failed with Stopped on a stopped Vm whose        *)
(* outputs earlier calls had all returned.                                 *)
C33_Witness ==
    /\ Idle("run_until_output")
    /\ pre.state = "Stopped"
    /\ pre.outputs = <<>>
    /\ ret = Stopped
    /\ drained # <<>>
    /\ drained = produced

---------------------------------------------------------------------------
(* No step of an amplifier can return Running any more: each amplifier is  *)
(* stopped, or is blocked on an empty input queue with nothing queued for  *)
(* it by the amplifier before it.                                          *)
Quiescent ==
    /\ amps.at # "none"
    /\ \A i \in Amps :
          \/ amps.vms[i].state = "Stopped"
          \/ StillBlocked(amps.vms[i]) /\ amps.vms[Before(i)].outputs = <<>>

(* The while loop of the driver has ended. *)
LoopExited == amps.at \in {"return", "done"} /\ amps.ret.tag \in {"Ok", "NoOutput"}

(* C34: in run_amps_loop step() is never called on a stopped amplifier and *)
(* the driver never fails with the Stopped error; the while loop ends      *)
(* exactly after the first complete round in which no step returned        *)
(* Running, and then no step of any amplifier could return Running; and    *)
(* once every amplifier is stopped, or blocked on empty input with nothing *)
(* to be passed on to it, the driver does come to its end.                 *)
C34_DriverExits ==
    /\ [](~amps.refused /\ amps.ret # Stopped)
    /\ [](amps.quiet => amps.at \in {"while", "return", "done"})
    /\ [](LoopExited => (amps.quiet /\ ~amps.ran /\ ~amps.running /\ Quiescent))
    /\ [][(amps.at = "while" /\ amps.quiet) => amps'.at = "return"]_vars
    /\ [][(amps.at = "while" /\ ~amps.quiet) => amps'.at = "for"]_vars
    /\ (Quiescent ~> amps.at = "done")

(* The driver has ended with two amplifiers stopped and the others blocked *)
(* on empty input.                                                         *)
C34_Witness ==
    /\ amps.at = "done"
    /\ amps.ret = NoOutput
    /\ amps.quiet
    /\ \E i, j \in Amps : amps.vms[i].state = "Stopped" /\ StillBlocked(amps.vms[j])
    /\ \E i \in Amps : amps.made[i] # <<>>

---------------------------------------------------------------------------
IsPrefix(a, b) == Len(a) <= Len(b) /\ a = SubSeq(b, 1, Len(a))

Last(a) == a[Len(a)]

(* C35: in run_amps_loop the values passed on to amplifier i are a prefix  *)
(* of the values the amplifier before it output; when the while loop has   *)
(* ended and amplifier 4 has output anything, its last output is still the *)
(* last of its queue and has not been passed on to amplifier 0, and the    *)
(* value run_amps_loop returns is that last output.                        *)
C35_ReturnsLastOutput ==
    /\ \A i \in Amps : IsPrefix(amps.sent[i], amps.made[Before(i)])
    /\ (amps.at = "return" /\ amps.made[4] # <<>>)
          => /\ amps.vms[4].outputs # <<>>
             /\ Last(amps.vms[4].outputs) = Last(amps.made[4])
             /\ Len(amps.sent[0]) < Len(amps.made[4])
    /\ (amps.at = "done" /\ LoopExited /\ amps.made[4] # <<>>)
          => amps.ret = OkVal(Last(amps.made[4]))

============================================================================
